---- MODULE Spec2Model ----
(***************************************************************************)
(* The configuration / credential store of the desktop application         *)
(* (app/services/config_service.py, app/services/crypto_service.py):       *)
(* an in-memory JSON document with dotted-path access, written through to  *)
(* a backing file in which the two secure fields are encrypted under a     *)
(* machine-derived key.                                                    *)
(***************************************************************************)
EXTENDS Integers, Sequences, FiniteSets, TLC

VARIABLES
    config,     \* ConfigService._config, the in-memory document
    file,       \* the backing file config.json
    machine,    \* the machine the store runs on (the inputs of _get_machine_id)
    writable,   \* whether the filesystem lets the backing file be opened for writing
    entropy,    \* how many Fernet IVs have been drawn so far
    last,       \* the last call: its name, arguments and outcome
    streak,     \* the records added by consecutive add_generation calls since the history was empty
    calls,      \* calls still allowed in this run
    horizon,    \* the last timestamp the clock hands out in this run
    app,        \* TextToImageApp: the screen shown, and whether a logout came after the last login
    flow,       \* the activation of GoogleFlowAutomation.generate_images, if any
    tab         \* GenerateTab: its flags, its worker thread and the Tk callbacks waiting for the main thread

vars == <<config, file, machine, writable, entropy, last, streak, calls, horizon, app, flow, tab>>

(***************************************************************************)
(* Python values that json can carry.  Every value is a tagged record; a   *)
(* str is either plain text or the text encrypt() produces (tag "ct").     *)
(***************************************************************************)
Null == [t |-> "null"]
Bool(b) == [t |-> "bool", b |-> b]
Num(i) == [t |-> "int", i |-> i]
Str(s) == [t |-> "str", s |-> s]
List(xs) == [t |-> "list", xs |-> xs]
Dict(d) == [t |-> "dict", d |-> d]
EmptyMap == [k \in {} |-> Null]

\* base64(Fernet(key).encrypt(pt)): the key, the plaintext, the IV and whether the HMAC still verifies
Ciphertext(key, pt, iv) == [t |-> "ct", key |-> key, pt |-> pt, iv |-> iv, mac |-> TRUE]

IsStr(v) == v.t \in {"str", "ct"}

\* bool(v)
Truthy(v) ==
    CASE v.t = "null" -> FALSE
      [] v.t = "bool" -> v.b
      [] v.t = "int" -> v.i # 0
      [] v.t = "str" -> v.s # ""
      [] v.t = "ct" -> TRUE
      [] v.t = "list" -> v.xs # <<>>
      [] v.t = "dict" -> DOMAIN v.d # {}

\* d[k] = v on a dict
Put(d, k, v) == [x \in DOMAIN d \cup {k} |-> IF x = k THEN v ELSE d[x]]

\* del d[k] on a dict
Del(d, k) == [x \in DOMAIN d \ {k} |-> d[x]]

\* needle in hay, for two str: the model's plain strings are chosen so that none
\* is a proper substring of another
StrContains(hay, needle) == needle = "" \/ needle = hay

\* Str(k) in xs, for a list
ListContains(xs, v) == \E i \in 1..Len(xs) : xs[i] = v

\* k in node, for a str k: the outcome of Python's membership test
\* "yes" | "no" | "TypeError" (argument of type 'int' is not iterable)
Contains(node, k) ==
    CASE node.t = "dict" -> IF k \in DOMAIN node.d THEN "yes" ELSE "no"
      [] node.t = "list" -> IF ListContains(node.xs, Str(k)) THEN "yes" ELSE "no"
      [] node.t = "str" -> IF StrContains(node.s, k) THEN "yes" ELSE "no"
      [] node.t = "ct" -> IF k = "" THEN "yes" ELSE "no"
      [] OTHER -> "TypeError"

(***************************************************************************)
(* key.split("."): a key is a sequence of text chunks, "." among them.     *)
(***************************************************************************)
RECURSIVE SplitFrom(_, _, _)
SplitFrom(s, i, cur) ==
    IF i > Len(s) THEN <<cur>>
    ELSE IF s[i] = "." THEN <<cur>> \o SplitFrom(s, i + 1, "")
    ELSE SplitFrom(s, i + 1, cur \o s[i])

Split(s) == SplitFrom(s, 1, "")

(***************************************************************************)
(* CryptoService                                                           *)
(***************************************************************************)
\* the machine string whose SHA-256 digest is the Fernet key
DeriveKey(m) == [sha256 |-> m]

\* encrypt with a key of its own (Fernet.generate_key()) instead of the derived one
EncryptFreshKey(data, key, iv) ==
    IF ~Truthy(data) THEN Str("")
    ELSE IF IsStr(data) THEN Ciphertext([sha256 |-> "generated"], data, iv)
    ELSE Str("")

\* encrypt(data) with the IV iv: "" for falsy data and for data that cannot be encoded
Encrypt(data, key, iv) ==
    IF ~Truthy(data) THEN Str("")
    ELSE IF IsStr(data) THEN Ciphertext(key, data, iv)
    ELSE Str("")

\* decrypt that lets InvalidToken and decoding errors leave the call
DecryptRaising(data, key) ==
    IF ~Truthy(data) THEN [exc |-> "none", value |-> Str("")]
    ELSE IF data.t = "ct" /\ data.key = key /\ data.mac
         THEN [exc |-> "none", value |-> data.pt]
         ELSE [exc |-> "InvalidToken", value |-> Str("")]

\* decrypt that skips Fernet's verification and hands out whatever plaintext is inside
DecryptUnverified(data, key) ==
    IF ~Truthy(data) THEN [exc |-> "none", value |-> Str("")]
    ELSE IF data.t = "ct"
         THEN [exc |-> "none", value |-> data.pt]
         ELSE [exc |-> "none", value |-> Str("")]

\* decrypt under a key that is the same on every machine
DecryptAnyKey(data, key) ==
    IF ~Truthy(data) THEN [exc |-> "none", value |-> Str("")]
    ELSE IF data.t = "ct" /\ data.mac
         THEN [exc |-> "none", value |-> data.pt]
         ELSE [exc |-> "none", value |-> Str("")]

\* decrypt(encrypted_data): the exception that leaves the call and the value returned
Decrypt(data, key) ==
    IF ~Truthy(data) THEN [exc |-> "none", value |-> Str("")]
    ELSE IF data.t = "ct" /\ data.key = key /\ data.mac
         THEN [exc |-> "none", value |-> data.pt]
         ELSE [exc |-> "none", value |-> Str("")]

(***************************************************************************)
(* ConfigService: the document, its defaults, save and load                *)
(***************************************************************************)
SECURE_KEYS == <<"api_token", "google_password">>

SecureKeySet == {SECURE_KEYS[i] : i \in 1..Len(SECURE_KEYS)}

DEFAULT_TIMEOUT == 120

DEFAULT_DELAY == 5

\* the most entries add_generation keeps
HISTORY_CAP == 50

GetDefaults ==
    Dict([k \in {"api_token", "google_email", "google_password", "prompts",
                 "settings", "recent_generations"} |->
        CASE k = "api_token" -> Str("")
          [] k = "google_email" -> Str("")
          [] k = "google_password" -> Str("")
          [] k = "prompts" -> List(<<>>)
          [] k = "settings" ->
                Dict([j \in {"timeout", "delay", "headless", "theme", "auto_sync_credits"} |->
                    CASE j = "timeout" -> Num(DEFAULT_TIMEOUT)
                      [] j = "delay" -> Num(DEFAULT_DELAY)
                      [] j = "headless" -> Bool(FALSE)
                      [] j = "theme" -> Str("dark")
                      [] j = "auto_sync_credits" -> Bool(TRUE)])
          [] k = "recent_generations" -> List(<<>>)])

\* the backing file: missing, not parseable as JSON, or the JSON text of a document
NoFile == [kind |-> "absent"]
MalformedFile == [kind |-> "malformed"]
JsonFile(doc) == [kind |-> "json", doc |-> doc]

\* the loop of _save_config over SECURE_KEYS[i..], on the copy: each encrypt draws a fresh IV
RECURSIVE EncryptSecure(_, _, _, _)
EncryptSecure(copy, i, key, iv) ==
    IF i > Len(SECURE_KEYS) THEN [doc |-> copy, iv |-> iv]
    ELSE LET k == SECURE_KEYS[i] IN
         IF k \in DOMAIN copy /\ Truthy(copy[k])
         THEN EncryptSecure(Put(copy, k, Encrypt(copy[k], key, iv + 1)), i + 1, key, iv + 1)
         ELSE EncryptSecure(copy, i + 1, key, iv)

\* _save_config that dumps the document as it is, the secure fields in plaintext
SaveConfigPlain(cfg, f, key, w, iv) ==
    IF w THEN [file |-> JsonFile(cfg), config |-> cfg, iv |-> iv, saved |-> "ok"]
    ELSE [file |-> f, config |-> cfg, iv |-> iv, saved |-> "failed"]

\* _save_config that encrypts in self._config itself, with no copy
SaveConfigInPlace(cfg, f, key, w, iv) ==
    IF cfg.t # "dict" THEN [file |-> f, config |-> cfg, iv |-> iv, saved |-> "failed"]
    ELSE LET enc == EncryptSecure(cfg.d, 1, key, iv) IN
         IF w
         THEN [file |-> JsonFile(Dict(enc.doc)), config |-> Dict(enc.doc), iv |-> enc.iv, saved |-> "ok"]
         ELSE [file |-> f, config |-> Dict(enc.doc), iv |-> enc.iv, saved |-> "failed"]

\* _save_config: the file and the document it leaves, the IVs drawn, and whether the
\* write happened ("ok") or an exception was caught and printed ("failed")
SaveConfig(cfg, f, key, w, iv) ==
    IF cfg.t # "dict"
    THEN \* a root that is no mapping: list.copy() is written as it is when none of the
         \* secure keys is an element of it; anything else raises inside the try
         IF cfg.t = "list" /\ w /\ \A i \in 1..Len(SECURE_KEYS) : ~ListContains(cfg.xs, Str(SECURE_KEYS[i]))
         THEN [file |-> JsonFile(cfg), config |-> cfg, iv |-> iv, saved |-> "ok"]
         ELSE [file |-> f, config |-> cfg, iv |-> iv, saved |-> "failed"]
    ELSE LET enc == EncryptSecure(cfg.d, 1, key, iv) IN
         IF w
         THEN [file |-> JsonFile(Dict(enc.doc)), config |-> cfg, iv |-> enc.iv, saved |-> "ok"]
         ELSE [file |-> f, config |-> cfg, iv |-> enc.iv, saved |-> "failed"]

\* the loop of _load_config without its else branch: what cannot be decrypted stays
RECURSIVE DecryptSecureKeeping(_, _, _)
DecryptSecureKeeping(doc, i, key) ==
    IF i > Len(SECURE_KEYS) THEN [exc |-> "none", doc |-> doc]
    ELSE LET k == SECURE_KEYS[i] IN
         IF k \in DOMAIN doc /\ Truthy(doc[k])
         THEN LET r == Decrypt(doc[k], key) IN
              IF r.exc # "none" THEN [exc |-> r.exc, doc |-> doc]
              ELSE IF Truthy(r.value)
                   THEN DecryptSecureKeeping(Put(doc, k, r.value), i + 1, key)
                   ELSE DecryptSecureKeeping(doc, i + 1, key)
         ELSE DecryptSecureKeeping(doc, i + 1, key)

\* the loop of _load_config over SECURE_KEYS[i..], on the parsed document
RECURSIVE DecryptSecure(_, _, _)
DecryptSecure(doc, i, key) ==
    IF i > Len(SECURE_KEYS) THEN [exc |-> "none", doc |-> doc]
    ELSE LET k == SECURE_KEYS[i] IN
         IF k \in DOMAIN doc /\ Truthy(doc[k])
         THEN LET r == Decrypt(doc[k], key) IN
              IF r.exc # "none" THEN [exc |-> r.exc, doc |-> doc]
              ELSE IF Truthy(r.value)
                   THEN DecryptSecure(Put(doc, k, r.value), i + 1, key)
                   ELSE DecryptSecure(Put(doc, k, Str("")), i + 1, key)
         ELSE DecryptSecure(doc, i + 1, key)

\* _load_config that writes back what it has loaded
LoadConfigResaving(f, key, w, iv) ==
    LET loaded ==
            IF f.kind = "absent" THEN GetDefaults
            ELSE IF f.kind = "malformed" THEN Dict(EmptyMap)
            ELSE IF f.doc.t = "dict"
                 THEN LET r == DecryptSecure(f.doc.d, 1, key) IN
                      IF r.exc # "none" THEN Dict(EmptyMap) ELSE Dict(r.doc)
                 ELSE Dict(EmptyMap)
        s == SaveConfig(loaded, f, key, w, iv)
    IN [config |-> s.config, file |-> s.file, iv |-> s.iv, saved |-> s.saved, exc |-> "none"]

\* _load_config whose except branch falls back to the defaults instead of {}
LoadConfigDefaultsOnError(f, key, w, iv) ==
    IF f.kind = "absent"
    THEN LET s == SaveConfig(GetDefaults, f, key, w, iv) IN
         [config |-> s.config, file |-> s.file, iv |-> s.iv, saved |-> s.saved, exc |-> "none"]
    ELSE LET loaded ==
                 IF f.kind = "malformed" THEN GetDefaults
                 ELSE IF f.doc.t = "dict"
                      THEN LET r == DecryptSecure(f.doc.d, 1, key) IN
                           IF r.exc # "none" THEN GetDefaults ELSE Dict(r.doc)
                      ELSE GetDefaults
         IN [config |-> loaded, file |-> f, iv |-> iv, saved |-> "none", exc |-> "none"]

\* _load_config that takes the defaults for a missing file and does not write them
LoadConfigUnsaved(f, key, w, iv) ==
    IF f.kind = "absent"
    THEN [config |-> GetDefaults, file |-> f, iv |-> iv, saved |-> "none", exc |-> "none"]
    ELSE LET loaded ==
                 IF f.kind = "malformed" THEN Dict(EmptyMap)
                 ELSE IF f.doc.t = "dict"
                      THEN LET r == DecryptSecure(f.doc.d, 1, key) IN
                           IF r.exc # "none" THEN Dict(EmptyMap) ELSE Dict(r.doc)
                      ELSE Dict(EmptyMap)
         IN [config |-> loaded, file |-> f, iv |-> iv, saved |-> "none", exc |-> "none"]

\* _load_config: the document, the file, the IVs drawn and what the call raised
LoadConfig(f, key, w, iv) ==
    IF f.kind = "absent"
    THEN LET s == SaveConfig(GetDefaults, f, key, w, iv) IN
         [config |-> s.config, file |-> s.file, iv |-> s.iv, saved |-> s.saved, exc |-> "none"]
    ELSE LET loaded ==
                 IF f.kind = "malformed" THEN Dict(EmptyMap)
                 ELSE IF f.doc.t = "dict"
                      THEN LET r == DecryptSecure(f.doc.d, 1, key) IN
                           IF r.exc # "none" THEN Dict(EmptyMap) ELSE Dict(r.doc)
                      ELSE IF \A i \in 1..Len(SECURE_KEYS) : Contains(f.doc, SECURE_KEYS[i]) = "no"
                           THEN f.doc
                           ELSE Dict(EmptyMap)
         IN [config |-> loaded, file |-> f, iv |-> iv, saved |-> "none", exc |-> "none"]

(***************************************************************************)
(* Dotted-path access                                                      *)
(***************************************************************************)
\* the loop of get without the isinstance test: `k in value` and value[k] on any value
RECURSIVE GetWalkUnchecked(_, _, _)
GetWalkUnchecked(value, keys, default) ==
    IF keys = <<>> THEN [exc |-> "none", value |-> value]
    ELSE LET in == Contains(value, Head(keys)) IN
         IF in = "TypeError" THEN [exc |-> "TypeError", value |-> Null]
         ELSE IF in = "no" THEN [exc |-> "none", value |-> default]
         ELSE IF value.t = "dict"
              THEN GetWalkUnchecked(value.d[Head(keys)], Tail(keys), default)
              ELSE [exc |-> "TypeError", value |-> Null]

\* the loop of get over keys: the value found, or default
RECURSIVE GetWalk(_, _, _)
GetWalk(value, keys, default) ==
    IF keys = <<>> THEN [exc |-> "none", value |-> value]
    ELSE IF value.t = "dict" /\ Head(keys) \in DOMAIN value.d
         THEN GetWalk(value.d[Head(keys)], Tail(keys), default)
         ELSE [exc |-> "none", value |-> default]

\* get(key, default)
Get(cfg, key, default) == GetWalk(cfg, Split(key), default)

\* the body of set without rebinding `config` in the loop: the intermediate mappings
\* are created and the leaf is assigned on the root
SetWalkFlat(node, keys, value) ==
    IF node.t # "dict" THEN [exc |-> "TypeError", node |-> node]
    ELSE LET made == [k \in DOMAIN node.d \cup {keys[i] : i \in 1..(Len(keys) - 1)} |->
                         IF k \in DOMAIN node.d THEN node.d[k] ELSE Dict(EmptyMap)]
         IN [exc |-> "none", node |-> Dict(Put(made, keys[Len(keys)], value))]

\* the body of set from the object bound to `config` on: the object as the call leaves
\* it (Python mutates it in place, also when a later step raises) and what the call raised
RECURSIVE SetWalk(_, _, _)
SetWalk(node, keys, value) ==
    IF Len(keys) = 1
    THEN IF node.t = "dict"
         THEN [exc |-> "none", node |-> Dict(Put(node.d, keys[1], value))]
         ELSE [exc |-> "TypeError", node |-> node]
    ELSE LET k == Head(keys) IN
         IF node.t # "dict"
         THEN \* `k not in config` raises, or config[k] = {} / config[k] raises
              [exc |-> "TypeError", node |-> node]
         ELSE LET child == IF k \in DOMAIN node.d THEN node.d[k] ELSE Dict(EmptyMap)
                  r == SetWalk(child, Tail(keys), value)
              IN [exc |-> r.exc, node |-> Dict(Put(node.d, k, r.node))]

\* the body of remove from the object bound to `config` on: the object it leaves,
\* whether a key was deleted, and what the call raised
RECURSIVE RemoveWalk(_, _)
RemoveWalk(node, keys) ==
    LET k == Head(keys)
        in == Contains(node, k)
    IN IF in = "TypeError" THEN [exc |-> "TypeError", node |-> node, deleted |-> FALSE]
       ELSE IF in = "no" THEN [exc |-> "none", node |-> node, deleted |-> FALSE]
       ELSE IF node.t # "dict"
            THEN \* config[k] or del config[k] with a str index
                 [exc |-> "TypeError", node |-> node, deleted |-> FALSE]
            ELSE IF Len(keys) = 1
                 THEN [exc |-> "none", node |-> Dict(Del(node.d, k)), deleted |-> TRUE]
                 ELSE LET r == RemoveWalk(node.d[k], Tail(keys)) IN
                      [exc |-> r.exc, node |-> Dict(Put(node.d, k, r.node)), deleted |-> r.deleted]

\* set that has put {} under the first segment by the time it raises
SetLeavingTrace(cfg, f, key, value, mkey, w, iv) ==
    LET r == SetWalk(cfg, Split(key), value) IN
    IF r.exc # "none"
    THEN [config |-> IF cfg.t = "dict" THEN Dict(Put(cfg.d, Head(Split(key)), Dict(EmptyMap))) ELSE cfg,
          file |-> f, iv |-> iv, saved |-> "none", exc |-> r.exc]
    ELSE LET s == SaveConfig(r.node, f, mkey, w, iv) IN
         [config |-> s.config, file |-> s.file, iv |-> s.iv, saved |-> s.saved, exc |-> "none"]

\* set(key, value): the document and file it leaves, and its outcome
Set(cfg, f, key, value, mkey, w, iv) ==
    LET r == SetWalk(cfg, Split(key), value) IN
    IF r.exc # "none"
    THEN [config |-> r.node, file |-> f, iv |-> iv, saved |-> "none", exc |-> r.exc]
    ELSE LET s == SaveConfig(r.node, f, mkey, w, iv) IN
         [config |-> s.config, file |-> s.file, iv |-> s.iv, saved |-> s.saved, exc |-> "none"]

\* remove that deletes the key and does not save
RemoveUnsaved(cfg, f, key, mkey, w, iv) ==
    LET r == RemoveWalk(cfg, Split(key)) IN
    [config |-> r.node, file |-> f, iv |-> iv, saved |-> "none", exc |-> r.exc]

\* get_secure with get's own default, None
GetSecureNoDefault(cfg, key) == Get(cfg, key, Null)

\* get_secure(key)
GetSecure(cfg, key) == Get(cfg, key, Str(""))

\* set_secure(key, value)
SetSecure(cfg, f, key, value, mkey, w, iv) == Set(cfg, f, key, value, mkey, w, iv)

\* remove that saves whether or not a key was deleted
RemoveResaving(cfg, f, key, mkey, w, iv) ==
    LET r == RemoveWalk(cfg, Split(key)) IN
    IF r.exc # "none"
    THEN [config |-> r.node, file |-> f, iv |-> iv, saved |-> "none", exc |-> r.exc]
    ELSE LET s == SaveConfig(r.node, f, mkey, w, iv) IN
         [config |-> s.config, file |-> s.file, iv |-> s.iv, saved |-> s.saved, exc |-> "none"]

\* remove(key)
Remove(cfg, f, key, mkey, w, iv) ==
    LET r == RemoveWalk(cfg, Split(key)) IN
    IF r.exc # "none" \/ ~r.deleted
    THEN [config |-> r.node, file |-> f, iv |-> iv, saved |-> "none", exc |-> r.exc]
    ELSE LET s == SaveConfig(r.node, f, mkey, w, iv) IN
         [config |-> s.config, file |-> s.file, iv |-> s.iv, saved |-> s.saved, exc |-> "none"]

\* reset that replaces the document and does not save
ResetUnsaved(f, mkey, w, iv) ==
    [config |-> GetDefaults, file |-> f, iv |-> iv, saved |-> "none", exc |-> "none"]

\* reset()
Reset(f, mkey, w, iv) ==
    LET s == SaveConfig(GetDefaults, f, mkey, w, iv) IN
    [config |-> s.config, file |-> s.file, iv |-> s.iv, saved |-> s.saved, exc |-> "none"]

\* a call that returns without touching anything
Untouched(cfg, f, iv, exc) ==
    [config |-> cfg, file |-> f, iv |-> iv, saved |-> "none", exc |-> exc]

(***************************************************************************)
(* Prompts and generation history                                          *)
(***************************************************************************)
PromptsKey == <<"prompts">>

HistoryKey == <<"recent_generations">>

\* get_prompts()
GetPrompts(cfg) == Get(cfg, PromptsKey, List(<<>>)).value

\* xs[-n:]: the last n entries instead of the first
TakeLast(xs, n) == SubSeq(xs, IF n < Len(xs) THEN Len(xs) - n + 1 ELSE 1, Len(xs))

\* xs[:n] for n >= 0
Take(xs, n) == SubSeq(xs, 1, IF n < Len(xs) THEN n ELSE Len(xs))

\* xs.pop(i), i counted from 0 and in range: the list that is left
Pop(xs, i) == SubSeq(xs, 1, i) \o SubSeq(xs, i + 2, Len(xs))

\* add_prompt that puts the new prompt first, prompts.insert(0, prompt)
AddPromptInFront(cfg, f, prompt, mkey, w, iv) ==
    LET prompts == GetPrompts(cfg) IN
    IF prompt = "" THEN Untouched(cfg, f, iv, "none")
    ELSE IF prompts.t = "list"
         THEN IF ListContains(prompts.xs, Str(prompt))
              THEN Untouched(cfg, f, iv, "none")
              ELSE Set(cfg, f, PromptsKey, List(<<Str(prompt)>> \o prompts.xs), mkey, w, iv)
         ELSE Untouched(cfg, f, iv, "AttributeError")

\* add_prompt without the `prompt not in prompts` test: a text already there is appended again
AddPromptRepeating(cfg, f, prompt, mkey, w, iv) ==
    LET prompts == GetPrompts(cfg) IN
    IF prompt = "" THEN Untouched(cfg, f, iv, "none")
    ELSE IF prompts.t = "list"
         THEN Set(cfg, f, PromptsKey, List(Append(prompts.xs, Str(prompt))), mkey, w, iv)
         ELSE Untouched(cfg, f, iv, "AttributeError")

\* add_prompt(prompt)
AddPrompt(cfg, f, prompt, mkey, w, iv) ==
    LET prompts == GetPrompts(cfg) IN
    IF prompt = "" THEN Untouched(cfg, f, iv, "none")
    ELSE IF prompts.t = "list"
         THEN IF ListContains(prompts.xs, Str(prompt))
              THEN Untouched(cfg, f, iv, "none")
              ELSE Set(cfg, f, PromptsKey, List(Append(prompts.xs, Str(prompt))), mkey, w, iv)
         ELSE \* `prompt not in prompts` or prompts.append raises on what is no list
              IF Contains(prompts, prompt) = "yes" THEN Untouched(cfg, f, iv, "none")
              ELSE IF Contains(prompts, prompt) = "no" THEN Untouched(cfg, f, iv, "AttributeError")
              ELSE Untouched(cfg, f, iv, "TypeError")

\* remove_prompt without the bounds test: pop takes a negative index from the end
RemovePromptWrapping(cfg, f, index, mkey, w, iv) ==
    LET prompts == GetPrompts(cfg) IN
    IF prompts.t = "list"
    THEN IF 0 <= index /\ index < Len(prompts.xs)
         THEN Set(cfg, f, PromptsKey, List(Pop(prompts.xs, index)), mkey, w, iv)
         ELSE IF 0 - Len(prompts.xs) <= index /\ index < 0
              THEN Set(cfg, f, PromptsKey, List(Pop(prompts.xs, Len(prompts.xs) + index)), mkey, w, iv)
              ELSE Untouched(cfg, f, iv, "IndexError")
    ELSE Untouched(cfg, f, iv, "TypeError")

\* remove_prompt(index)
RemovePrompt(cfg, f, index, mkey, w, iv) ==
    LET prompts == GetPrompts(cfg) IN
    IF prompts.t = "list"
    THEN IF 0 <= index /\ index < Len(prompts.xs)
         THEN Set(cfg, f, PromptsKey, List(Pop(prompts.xs, index)), mkey, w, iv)
         ELSE Untouched(cfg, f, iv, "none")
    ELSE \* the documents of the model hold a list under "prompts" or nothing; on any
         \* other value len() or pop() raises
         Untouched(cfg, f, iv, "TypeError")

\* clear_prompts()
ClearPrompts(cfg, f, mkey, w, iv) == Set(cfg, f, PromptsKey, List(<<>>), mkey, w, iv)

\* the stored history, as get("recent_generations", []) returns it
GetHistory(cfg) == Get(cfg, HistoryKey, List(<<>>)).value

\* add_generation that stores the list without cutting it
AddGenerationUncut(cfg, f, generation, mkey, w, iv) ==
    LET recent == GetHistory(cfg) IN
    IF recent.t # "list" THEN Untouched(cfg, f, iv, "AttributeError")
    ELSE Set(cfg, f, HistoryKey, List(<<generation>> \o recent.xs), mkey, w, iv)

\* add_generation(generation)
AddGeneration(cfg, f, generation, mkey, w, iv) ==
    LET recent == GetHistory(cfg) IN
    IF recent.t # "list" THEN Untouched(cfg, f, iv, "AttributeError")
    ELSE Set(cfg, f, HistoryKey, List(Take(<<generation>> \o recent.xs, HISTORY_CAP)), mkey, w, iv)

\* xs[:limit] for any int: a negative limit counts from the end
Slice(xs, limit) ==
    IF limit >= 0 THEN Take(xs, limit)
    ELSE IF Len(xs) + limit > 0 THEN SubSeq(xs, 1, Len(xs) + limit) ELSE <<>>

\* get_recent_generations that hands out the oldest entries, xs[-limit:]
GetRecentGenerationsOldest(cfg, limit) ==
    LET recent == GetHistory(cfg) IN
    IF recent.t = "list"
    THEN [exc |-> "none", value |-> List(TakeLast(recent.xs, IF limit >= 0 THEN limit ELSE 0))]
    ELSE [exc |-> "TypeError", value |-> Null]

\* get_recent_generations(limit)
GetRecentGenerations(cfg, limit) ==
    LET recent == GetHistory(cfg) IN
    IF recent.t = "list" THEN [exc |-> "none", value |-> List(Slice(recent.xs, limit))]
    ELSE \* the documents of the model hold a list under "recent_generations" or nothing
         [exc |-> "TypeError", value |-> Null]

\* clear_history()
ClearHistory(cfg, f, mkey, w, iv) == Set(cfg, f, HistoryKey, List(<<>>), mkey, w, iv)

(***************************************************************************)
(* The application around the store, before anything has run               *)
(***************************************************************************)
\* TextToImageApp.__init__: no screen yet
\* current_screen; the handler that set it (via); what _check_auth read and was
\* answered (token, valid); whether a logout has happened with no login since
NoScreen ==
    [current_screen |-> "none", via |-> "", token |-> Null, valid |-> FALSE, logged_out |-> FALSE]

\* _check_auth without the validation
CheckAuthUnvalidated(cfg, answer) ==
    IF Truthy(GetSecure(cfg, <<"api_token">>).value) THEN "main" ELSE "login"

\* TextToImageApp._check_auth: the screen shown; answer is what validate_token
\* returns when it is asked
CheckAuth(cfg, answer) ==
    IF Truthy(GetSecure(cfg, <<"api_token">>).value) /\ answer THEN "main" ELSE "login"

\* no call of generate_images is active
NoFlow ==
    [pc |-> "idle", prompts |-> <<>>, i |-> 0, results |-> <<>>, browser |-> "None",
     exit |-> "", pending |-> FALSE, seen |-> <<>>, kept |-> <<>>, stop_seen |-> FALSE]

(***************************************************************************)
(* GoogleFlowAutomation.generate_images, statement by statement.  A flow   *)
(* record holds the position (pc), the arguments and locals (prompts, i,   *)
(* results), self.browser ("None", "assigned": a BrowserDriver without a   *)
(* driver, "open", "quit"), how the try block was left (exit), whether an  *)
(* exception is on its way out (pending), and, for the record, the indexes *)
(* _generate_single was called for (seen), the indexes whose record was    *)
(* appended (kept) and whether stop_check has returned true (stop_seen).   *)
(***************************************************************************)
\* the record _generate_single returns for a prompt
GenerationOf(prompt) ==
    Dict([k \in {"prompt", "file"} |-> IF k = "prompt" THEN Str(prompt) ELSE Str(prompt \o ".png")])

\* generate_images(prompts, stop_check) is entered: results = []
EnterGenerateImages(prompts) == [NoFlow EXCEPT !.pc = "create", !.prompts = prompts]

\* an exception inside the try block goes to the except clause
ToExcept(fl) == [fl EXCEPT !.pc = "except", !.exit = "exception"]

\* self.log("Starting browser..."); self.browser = BrowserDriver(...); self.browser.create()
CreateBrowser(fl, outcome) ==
    CASE outcome = "ok" -> [fl EXCEPT !.browser = "open", !.pc = "login"]
      [] outcome = "log_raise" -> ToExcept(fl)
      [] OTHER -> ToExcept([fl EXCEPT !.browser = "assigned"])

\* if not self._login(): self.log("Login failed!"); return results
Login(fl, outcome) ==
    CASE outcome = "ok" -> [fl EXCEPT !.pc = "navigate"]
      [] outcome = "false" -> [fl EXCEPT !.pc = "finally", !.exit = "login"]
      [] OTHER -> ToExcept(fl)

\* if not self._navigate_to_imagefx(): self.log("Failed to load ImageFX!"); return results
NavigateToImagefx(fl, outcome) ==
    CASE outcome = "ok" -> [fl EXCEPT !.pc = "loop"]
      [] outcome = "false" -> [fl EXCEPT !.pc = "finally", !.exit = "navigate"]
      [] OTHER -> ToExcept(fl)

\* the head of the loop with no stop test
LoopHeadIgnoringStop(fl, stop, logged) ==
    IF fl.i >= Len(fl.prompts) THEN [fl EXCEPT !.pc = "finally", !.exit = "done"]
    ELSE [fl EXCEPT !.pc = "single", !.stop_seen = @ \/ stop]

\* for i, prompt in enumerate(prompts): if stop_check and stop_check():
\* self.log("Generation stopped by user"); break.  After the loop
\* self.update_progress(total, total, "Complete!"); logged tells whether the callback
\* reached here returned
LoopHead(fl, stop, logged) ==
    IF fl.i >= Len(fl.prompts)
    THEN IF logged THEN [fl EXCEPT !.pc = "finally", !.exit = "done"] ELSE ToExcept(fl)
    ELSE IF stop
         THEN IF logged THEN [fl EXCEPT !.pc = "finally", !.exit = "stop", !.stop_seen = TRUE]
              ELSE ToExcept([fl EXCEPT !.stop_seen = TRUE])
         ELSE [fl EXCEPT !.pc = "single"]

\* self.update_progress(...); self.log(...); result = self._generate_single(prompt);
\* if result: results.append(result); the logs and the delay.  _generate_single
\* catches its own exceptions: "raise" is a callback raising after it
LoopBody(fl, outcome) ==
    LET called == [fl EXCEPT !.seen = Append(@, fl.i)] IN
    CASE outcome = "record" ->
            [called EXCEPT !.results = Append(@, GenerationOf(fl.prompts[fl.i + 1])),
                           !.kept = Append(@, fl.i), !.i = @ + 1, !.pc = "loop"]
      [] outcome = "none" -> [called EXCEPT !.i = @ + 1, !.pc = "loop"]
      [] outcome = "log_raise" -> ToExcept(fl)
      [] OTHER -> ToExcept(called)

\* except Exception as e: self.log(f"Error: {str(e)}"); an exception of the log
\* callback stays pending over the finally clause
Except(fl, logged) == [fl EXCEPT !.pc = "finally", !.pending = ~logged]

\* finally: if self.browser: self.log("Closing browser..."); self.browser.quit();
\* then return results, or the pending exception leaves the call
Finally(fl, logged) ==
    IF fl.browser = "None" THEN [fl EXCEPT !.pc = IF fl.pending THEN "raised" ELSE "returned"]
    ELSE IF ~logged THEN [fl EXCEPT !.pc = "raised", !.pending = TRUE]
    ELSE [fl EXCEPT !.browser = "quit", !.pc = IF fl.pending THEN "raised" ELSE "returned"]

\* GenerateTab.__init__: not generating, no thread, nothing scheduled
\* no store call of a GUI handler is under way
NoCall == [op |-> "none", arg |-> "", step |-> 0]

(***************************************************************************)
(* GenerateTab: its flags; the position of the background thread (worker)  *)
(* with its locals prompts and results; the callbacks handed to            *)
(* self.after and not yet run (queue); the add_generation calls a running  *)
(* _generation_complete still has to make, each with the thread that makes *)
(* it (todo); the store call a GUI handler is inside (call); the threads   *)
(* that are inside a mutating store call (writers).                        *)
(***************************************************************************)
NewTab ==
    [is_generating |-> FALSE, stop_requested |-> FALSE, worker |-> "none",
     prompts |-> <<>>, results |-> <<>>, queue |-> <<>>, todo |-> <<>>, call |-> NoCall,
     writers |-> {}]

\* _generation_complete(results) as run by a thread: is_generating = False, then
\* add_generation for each result
GenerationComplete(tb, results, thread) ==
    [tb EXCEPT !.is_generating = FALSE,
               !.todo = @ \o [k \in 1..Len(results) |->
                                [thread |-> thread, generation |-> results[k]]]]

\* the callback run at once by the calling thread
AfterInWorker(tb, cb) ==
    IF cb.name = "complete" THEN GenerationComplete(tb, cb.results, "worker")
    ELSE [tb EXCEPT !.is_generating = FALSE]

\* self.after(0, callback) on the background thread: the callback is queued for
\* the main loop
After(tb, cb) == [tb EXCEPT !.queue = Append(@, cb)]

\* the main loop runs one queued callback: _generation_complete or _generation_failed
Dispatch(tb) ==
    LET cb == Head(tb.queue)
        rest == [tb EXCEPT !.queue = Tail(@)]
    IN IF cb.name = "complete" THEN GenerationComplete(rest, cb.results, "main")
       ELSE [rest EXCEPT !.is_generating = FALSE]

\* GenerateTab._save_settings with the entries of the form: the step-th of its
\* five store calls
SaveSettingsStep(cfg, f, step, mkey, w, iv) ==
    CASE step = 1 -> Set(cfg, f, <<"google_email">>, Str("a@b"), mkey, w, iv)
      [] step = 2 -> SetSecure(cfg, f, <<"google_password">>, Str("abc123"), mkey, w, iv)
      [] step = 3 -> Set(cfg, f, <<"settings", ".", "timeout">>, Num(45), mkey, w, iv)
      [] step = 4 -> Set(cfg, f, <<"settings", ".", "delay">>, Num(0), mkey, w, iv)
      [] OTHER -> Set(cfg, f, <<"settings", ".", "headless">>, Bool(TRUE), mkey, w, iv)

\* the number of store calls in _save_settings
SaveSettingsCalls == 5

(***************************************************************************)
(* Bounds and inputs                                                       *)
(***************************************************************************)
\* calls per run, the add_generation calls apart
MaxCalls == 2

\* the clock's last timestamp in a run of Spec
MaxShortHistory == 2

\* GUI handler calls per run of SpecThreads
MaxTabCalls == 4

\* handler calls per run of SpecAuth
MaxAuthCalls == 5

\* calls of generate_images per run of SpecFlow
MaxFlowCalls == 2

\* calls per run of SpecCrypto
MaxCryptoCalls == 4

\* IVs among the tokens handed to decrypt
MaxTokenIv == 2

\* calls per run of SpecPrompts
MaxPromptCalls == 4

\* calls per run of SpecRecovery
MaxRecoveryCalls == 3

\* calls per run of SpecHistory, the add_generation calls apart
MaxHistoryCalls == 2

\* the clock's last timestamp in a run of SpecHistory: past the cap
MaxGenerations == 52

Machines == {"m1", "m2"}

HomeMachine == "m1"

\* the keys the calls are made with
PathInputs ==
    { <<"api_token">>,
      <<"google_password">>,
      <<"settings", ".", "time", "out">>,
      <<"settings", ".", "api_token">>,
      <<"cache", ".", "thumbs", ".", "size">>,
      <<"prompts", ".", "cat">>,
      <<"google_email", ".", "cat">>,
      <<"settings", ".", "timeout", ".", "cat">>,
      <<"settings", ".", "headless", ".", "cat">>,
      <<"recent_generations">> }

SecretInputs == {Str(""), Str("abc123")}

ScalarInputs == {Bool(FALSE), Num(0), Str(""), Null, Num(45)}

DefaultInputs == {Null, Num(7)}

PromptInputs == {"", "cat", "fox", "elk"}

IndexInputs == {-1, 0, 2, 999}

LimitInputs == {-1, 0, 1, 10}

\* the token the login screen hands to _on_login_success: None without "remember me"
TokenInputs == {Null, Str(""), Str("tok1"), Str("tok2")}

\* the prompt lists generate_images is called with
PromptLists == {<<>>, <<"cat">>, <<"cat", "fox">>, <<"cat", "cat", "elk">>}

\* how a step that drives the browser can end
StepOutcomes == {"ok", "false", "raise"}

\* what decrypt is called with: nothing, text that is no base64 ("garbage" has a
\* length base64 cannot have), base64 of something that is no token ("YWJj"), and
\* tokens of either machine, whole or with a byte flipped
DecryptInputs ==
    {Str(""), Str("garbage"), Str("YWJj")}
    \cup {[Ciphertext(DeriveKey(m), Str("abc123"), iv) EXCEPT !.mac = ok] :
              m \in Machines, iv \in 1..MaxTokenIv, ok \in BOOLEAN}

\* a generation record made at time ts
Generation(ts) ==
    Dict([k \in {"prompt", "timestamp"} |-> IF k = "prompt" THEN Str("cat") ELSE Num(ts)])

\* a history one entry longer than the cap, newest first
Oversize == List([i \in 1..(HISTORY_CAP + 1) |-> Generation(HISTORY_CAP + 2 - i)])

\* the values set is called with for a key: a secure field is a str (set_secure's
\* signature, the callers in app.py and generate_tab.py), the history a list
ValuesFor(key) ==
    LET keys == Split(key) IN
    IF keys[Len(keys)] \in SecureKeySet THEN SecretInputs
    ELSE IF key = HistoryKey THEN {Oversize}
    ELSE IF keys = <<"cache", "thumbs", "size">> THEN ScalarInputs
    ELSE {Num(45)}

\* the document an earlier run left in the file
SeedDocument ==
    Dict([k \in DOMAIN GetDefaults.d |->
        CASE k = "api_token" -> Str("abc123")
          [] k = "google_email" -> Str("user@example.com")
          [] k = "google_password" -> Str("hunter2")
          [] k = "prompts" -> List(<<Str("cat"), Str("dog"), Str("owl")>>)
          [] OTHER -> GetDefaults.d[k]])

SeedSave == SaveConfig(SeedDocument, NoFile, DeriveKey(HomeMachine), TRUE, 0)

InitialFiles == {NoFile, SeedSave.file}

\* the file of the seeded document as another machine wrote it
ForeignFile == SaveConfig(SeedDocument, NoFile, DeriveKey("m2"), TRUE, 0).file

(***************************************************************************)
(* The state machine                                                       *)
(***************************************************************************)
\* the key _derive_key computes on this machine
Key == DeriveKey(machine)

\* the timestamp of the next generation record: one tick after the newest stored one
NextTimestamp(cfg) ==
    LET recent == GetHistory(cfg) IN
    IF recent.t = "list" /\ recent.xs # <<>> THEN recent.xs[1].d["timestamp"].i + 1 ELSE 1

\* whether every segment of keys is found walking down mappings from node
RECURSIVE Present(_, _)
Present(node, keys) ==
    \/ keys = <<>>
    \/ /\ node.t = "dict"
       /\ Head(keys) \in DOMAIN node.d
       /\ Present(node.d[Head(keys)], Tail(keys))

Called(op, key, arg, r, ret, pre) ==
    [op |-> op, key |-> key, arg |-> arg, exc |-> r.exc, ret |-> ret,
     saved |-> r.saved, pre |-> pre]

NoStreak == [ok |-> FALSE, added |-> <<>>]

\* the streak after a call other than add_generation
StreakAfter(cfg) ==
    IF GetHistory(cfg) = List(<<>>) THEN [ok |-> TRUE, added |-> <<>>] ELSE NoStreak

Spend == calls > 0 /\ calls' = calls - 1

\* a call of the store with outcome r
Outcome(r) ==
    /\ config' = r.config
    /\ file' = r.file
    /\ entropy' = r.iv
    /\ streak' = StreakAfter(r.config)
    /\ UNCHANGED <<machine, writable, horizon, app, flow, tab>>

\* ConfigService(): the store is constructed over file f
InitOver(f, c, h) ==
    LET r == LoadConfig(f, DeriveKey(HomeMachine), TRUE, SeedSave.iv) IN
    /\ config = r.config
    /\ file = r.file
    /\ entropy = r.iv
    /\ machine = HomeMachine
    /\ writable = TRUE
    /\ last = Called("load", <<>>, Null, r, Null, f.kind = "absent")
    /\ streak = StreakAfter(r.config)
    /\ calls = c
    /\ horizon = h
    /\ app = NoScreen
    /\ flow = NoFlow
    /\ tab = NewTab

Init == \E f \in InitialFiles : InitOver(f, MaxCalls, MaxShortHistory)

InitHistory == InitOver(NoFile, MaxHistoryCalls, MaxGenerations)

DoSet(key, value) ==
    LET r == Set(config, file, key, value, Key, writable, entropy) IN
    /\ Spend
    /\ Outcome(r)
    /\ last' = Called("set", key, value, r, Null, TRUE)

CallSet == \E key \in PathInputs : \E value \in ValuesFor(key) : DoSet(key, value)

CallSetSecure ==
    \E i \in 1..Len(SECURE_KEYS) : \E value \in SecretInputs :
        LET key == <<SECURE_KEYS[i]>>
            r == SetSecure(config, file, key, value, Key, writable, entropy)
        IN /\ Spend
           /\ Outcome(r)
           /\ last' = Called("set_secure", key, value, r, Null, TRUE)

CallGet ==
    \E key \in PathInputs : \E default \in DefaultInputs :
        LET r == Get(config, key, default) IN
        /\ Spend
        /\ last' = Called("get", key, default, Untouched(config, file, entropy, r.exc), r.value, FALSE)
        /\ streak' = StreakAfter(config)
        /\ UNCHANGED <<config, file, entropy, machine, writable, horizon, app, flow, tab>>

CallGetSecure ==
    \E i \in 1..Len(SECURE_KEYS) :
        LET key == <<SECURE_KEYS[i]>>
            r == GetSecure(config, key)
        IN /\ Spend
           /\ last' = Called("get_secure", key, Null, Untouched(config, file, entropy, r.exc), r.value, FALSE)
           /\ streak' = StreakAfter(config)
           /\ UNCHANGED <<config, file, entropy, machine, writable, horizon, app, flow, tab>>

CallRemove ==
    \E key \in PathInputs :
        LET r == Remove(config, file, key, Key, writable, entropy) IN
        /\ Spend
        /\ Outcome(r)
        /\ last' = Called("remove", key, Null, r, Null, Present(config, Split(key)))

CallAddPrompt ==
    \E prompt \in PromptInputs :
        LET r == AddPrompt(config, file, prompt, Key, writable, entropy)
            prompts == GetPrompts(config)
        IN /\ Spend
           /\ Outcome(r)
           /\ last' = Called("add_prompt", <<>>, Str(prompt), r, Null,
                             prompt # "" /\ prompts.t = "list" /\ ~ListContains(prompts.xs, Str(prompt)))

CallRemovePrompt ==
    \E index \in IndexInputs :
        LET r == RemovePrompt(config, file, index, Key, writable, entropy)
            prompts == GetPrompts(config)
        IN /\ Spend
           /\ Outcome(r)
           /\ last' = Called("remove_prompt", <<>>, Num(index), r, Null,
                             prompts.t = "list" /\ 0 <= index /\ index < Len(prompts.xs))

CallClearPrompts ==
    LET r == ClearPrompts(config, file, Key, writable, entropy) IN
    /\ Spend
    /\ Outcome(r)
    /\ last' = Called("clear_prompts", <<>>, Null, r, Null, TRUE)

CallAddGeneration ==
    LET generation == Generation(NextTimestamp(config))
        r == AddGeneration(config, file, generation, Key, writable, entropy)
    IN /\ NextTimestamp(config) <= horizon
       /\ config' = r.config
       /\ file' = r.file
       /\ entropy' = r.iv
       /\ streak' = IF streak.ok /\ r.exc = "none"
                    THEN [ok |-> TRUE, added |-> Append(streak.added, generation)]
                    ELSE NoStreak
       /\ last' = Called("add_generation", <<>>, generation, r, Null, TRUE)
       /\ UNCHANGED <<machine, writable, calls, horizon, app, flow, tab>>

CallGetRecentGenerations ==
    \E limit \in LimitInputs :
        LET r == GetRecentGenerations(config, limit) IN
        /\ Spend
        /\ last' = Called("get_recent_generations", <<>>, Num(limit),
                          Untouched(config, file, entropy, r.exc), r.value, FALSE)
        /\ streak' = StreakAfter(config)
        /\ UNCHANGED <<config, file, entropy, machine, writable, horizon, app, flow, tab>>

CallClearHistory ==
    LET r == ClearHistory(config, file, Key, writable, entropy) IN
    /\ Spend
    /\ Outcome(r)
    /\ last' = Called("clear_history", <<>>, Null, r, Null, TRUE)

CallReset ==
    LET r == Reset(file, Key, writable, entropy) IN
    /\ Spend
    /\ Outcome(r)
    /\ last' = Called("reset", <<>>, Null, r, Null, TRUE)

\* ConfigService() over the file as it is, on machine m
RestartOn(m) ==
    LET r == LoadConfig(file, DeriveKey(m), writable, entropy) IN
    /\ Spend
    /\ config' = r.config
    /\ file' = r.file
    /\ entropy' = r.iv
    /\ machine' = m
    /\ streak' = StreakAfter(r.config)
    /\ last' = Called("load", <<>>, Null, r, Null, file.kind = "absent")
    /\ UNCHANGED <<writable, horizon, app, flow, tab>>

\* the application is started again, on this machine or, the file copied, on another
Restart == \E m \in Machines : RestartOn(m)

\* the application is started again on the machine it runs on
Reload == RestartOn(machine)

\* someone edits the file: a byte of a secure field's ciphertext is flipped
FlipByte ==
    \E k \in SecureKeySet :
        /\ Spend
        /\ file.kind = "json" /\ file.doc.t = "dict"
        /\ k \in DOMAIN file.doc.d
        /\ file.doc.d[k].t = "ct"
        /\ file' = JsonFile(Dict(Put(file.doc.d, k, [file.doc.d[k] EXCEPT !.mac = FALSE])))
        /\ last' = Called("edit", <<k>>, Null, Untouched(config, file, entropy, "none"), Null, FALSE)
        /\ UNCHANGED <<config, machine, writable, entropy, streak, horizon, app, flow, tab>>

\* someone edits the file: a secure field's ciphertext is replaced by other text
ReplaceByGarbage ==
    \E k \in SecureKeySet :
        /\ Spend
        /\ file.kind = "json" /\ file.doc.t = "dict"
        /\ k \in DOMAIN file.doc.d
        /\ file' = JsonFile(Dict(Put(file.doc.d, k, Str("garbage"))))
        /\ last' = Called("edit", <<k>>, Null, Untouched(config, file, entropy, "none"), Null, FALSE)
        /\ UNCHANGED <<config, machine, writable, entropy, streak, horizon, app, flow, tab>>

\* someone edits the file so that it is no JSON text any more
BreakJson ==
    /\ Spend
    /\ file.kind = "json"
    /\ file' = MalformedFile
    /\ last' = Called("edit", <<>>, Null, Untouched(config, file, entropy, "none"), Null, FALSE)
    /\ UNCHANGED <<config, machine, writable, entropy, streak, horizon, app, flow, tab>>

\* someone deletes the file
DeleteFile ==
    /\ Spend
    /\ file.kind # "absent"
    /\ file' = NoFile
    /\ last' = Called("edit", <<>>, Null, Untouched(config, file, entropy, "none"), Null, FALSE)
    /\ UNCHANGED <<config, machine, writable, entropy, streak, horizon, app, flow, tab>>

\* the file (or its directory) loses its write permission
RevokeWrite ==
    /\ Spend
    /\ writable
    /\ writable' = FALSE
    /\ last' = Called("chmod", <<>>, Null, Untouched(config, file, entropy, "none"), Null, FALSE)
    /\ UNCHANGED <<config, file, machine, entropy, streak, horizon, app, flow, tab>>

Next ==
    \/ CallSet
    \/ CallSetSecure
    \/ CallGet
    \/ CallGetSecure
    \/ CallRemove
    \/ CallAddPrompt
    \/ CallRemovePrompt
    \/ CallClearPrompts
    \/ CallAddGeneration
    \/ CallGetRecentGenerations
    \/ CallClearHistory
    \/ CallReset
    \/ Restart
    \/ FlipByte
    \/ ReplaceByGarbage
    \/ BreakJson
    \/ DeleteFile

Spec == Init /\ [][Next]_vars

\* the same store on a filesystem that may refuse the write
NextFault == Next \/ RevokeWrite

SpecFault == Init /\ [][NextFault]_vars

\* the history calls alone, with the clock running past the cap
CallSetHistory == DoSet(HistoryKey, Oversize)

NextHistory ==
    \/ CallAddGeneration
    \/ CallClearHistory
    \/ CallSetHistory
    \/ CallReset
    \/ Restart

SpecHistory == InitHistory /\ [][NextHistory]_vars

\* _start_generation clears the stop flag, _run_generation calls generate_images
FlowCall ==
    \E prompts \in PromptLists :
        /\ Spend
        /\ flow.pc \in {"idle", "returned", "raised"}
        /\ flow' = EnterGenerateImages(prompts)
        /\ tab' = [tab EXCEPT !.stop_requested = FALSE]
        /\ UNCHANGED <<config, file, machine, writable, entropy, last, streak, horizon, app>>

FlowCreateBrowser ==
    \E outcome \in {"ok", "log_raise", "raise"} :
        /\ flow.pc = "create"
        /\ flow' = CreateBrowser(flow, outcome)
        /\ UNCHANGED <<config, file, machine, writable, entropy, last, streak, calls, horizon, app, tab>>

FlowLogin ==
    \E outcome \in StepOutcomes :
        /\ flow.pc = "login"
        /\ flow' = Login(flow, outcome)
        /\ UNCHANGED <<config, file, machine, writable, entropy, last, streak, calls, horizon, app, tab>>

FlowNavigate ==
    \E outcome \in StepOutcomes :
        /\ flow.pc = "navigate"
        /\ flow' = NavigateToImagefx(flow, outcome)
        /\ UNCHANGED <<config, file, machine, writable, entropy, last, streak, calls, horizon, app, tab>>

\* stop_check is lambda: self.stop_requested
FlowLoopHead ==
    \E logged \in BOOLEAN :
        /\ flow.pc = "loop"
        /\ flow' = LoopHead(flow, tab.stop_requested, logged)
        /\ UNCHANGED <<config, file, machine, writable, entropy, last, streak, calls, horizon, app, tab>>

FlowLoopBody ==
    \E outcome \in {"record", "none", "log_raise", "raise"} :
        /\ flow.pc = "single"
        /\ flow' = LoopBody(flow, outcome)
        /\ UNCHANGED <<config, file, machine, writable, entropy, last, streak, calls, horizon, app, tab>>

FlowExcept ==
    \E logged \in BOOLEAN :
        /\ flow.pc = "except"
        /\ flow' = Except(flow, logged)
        /\ UNCHANGED <<config, file, machine, writable, entropy, last, streak, calls, horizon, app, tab>>

FlowFinally ==
    \E logged \in BOOLEAN :
        /\ flow.pc = "finally"
        /\ flow' = Finally(flow, logged)
        /\ UNCHANGED <<config, file, machine, writable, entropy, last, streak, calls, horizon, app, tab>>

\* _stop_generation (the Stop button) or cleanup, on the main thread, while the call runs
StopGeneration ==
    /\ flow.pc \notin {"idle", "returned", "raised"}
    /\ ~tab.stop_requested
    /\ tab' = [tab EXCEPT !.stop_requested = TRUE]
    /\ UNCHANGED <<config, file, machine, writable, entropy, last, streak, calls, horizon, app, flow>>

\* generate_images alone, with the Stop button
InitFlow == InitOver(NoFile, MaxFlowCalls, 0)

NextFlow ==
    \/ FlowCall
    \/ FlowCreateBrowser
    \/ FlowLogin
    \/ FlowNavigate
    \/ FlowLoopHead
    \/ FlowLoopBody
    \/ FlowExcept
    \/ FlowFinally
    \/ StopGeneration

SpecFlow == InitFlow /\ [][NextFlow]_vars

\* TextToImageApp.run: _check_auth, then the main loop
AppRun ==
    \E answer \in BOOLEAN :
        LET token == GetSecure(config, <<"api_token">>).value IN
        /\ app.current_screen = "none"
        /\ app' = [app EXCEPT !.current_screen = CheckAuth(config, answer), !.via = "check_auth",
                               !.token = token, !.valid = Truthy(token) /\ answer]
        /\ UNCHANGED <<config, file, machine, writable, entropy, last, streak, calls, horizon, flow, tab>>

\* TextToImageApp._on_login_success(user_data, token)
AppLoginSuccess ==
    \E token \in TokenInputs :
        LET r == IF Truthy(token)
                 THEN SetSecure(config, file, <<"api_token">>, token, Key, writable, entropy)
                 ELSE [config |-> config, file |-> file, iv |-> entropy, saved |-> "none", exc |-> "none"]
        IN /\ Spend
           /\ app.current_screen = "login"
           /\ config' = r.config
           /\ file' = r.file
           /\ entropy' = r.iv
           /\ streak' = StreakAfter(r.config)
           /\ last' = Called("set_secure", <<"api_token">>, token, r, Null, Truthy(token))
           /\ app' = [app EXCEPT !.current_screen = "main", !.via = "login", !.logged_out = FALSE]
           /\ UNCHANGED <<machine, writable, horizon, flow, tab>>

\* TextToImageApp._on_logout
AppLogout ==
    LET r == Remove(config, file, <<"api_token">>, Key, writable, entropy) IN
    /\ Spend
    /\ app.current_screen = "main"
    /\ config' = r.config
    /\ file' = r.file
    /\ entropy' = r.iv
    /\ streak' = StreakAfter(r.config)
    /\ last' = Called("remove", <<"api_token">>, Null, r, Null, Present(config, <<"api_token">>))
    /\ app' = [app EXCEPT !.current_screen = "login", !.via = "logout", !.logged_out = TRUE]
    /\ UNCHANGED <<machine, writable, horizon, flow, tab>>

\* _on_close, then the application is started again: TextToImageApp.__init__
\* constructs the services anew
AppRestart ==
    \E m \in Machines :
        LET r == LoadConfig(file, DeriveKey(m), writable, entropy) IN
        /\ Spend
        /\ app.current_screen # "none"
        /\ config' = r.config
        /\ file' = r.file
        /\ entropy' = r.iv
        /\ machine' = m
        /\ streak' = StreakAfter(r.config)
        /\ last' = Called("load", <<>>, Null, r, Null, file.kind = "absent")
        /\ app' = [NoScreen EXCEPT !.logged_out = app.logged_out]
        /\ UNCHANGED <<writable, horizon, flow, tab>>

\* the application's screens over the store
InitAuth == \E f \in {NoFile, SeedSave.file} : InitOver(f, MaxAuthCalls, 0)

NextAuth ==
    \/ AppRun
    \/ AppLoginSuccess
    \/ AppLogout
    \/ AppRestart

SpecAuth == InitAuth /\ [][NextAuth]_vars

\* the main thread runs no handler and no callback
MainIdle ==
    /\ tab.call = NoCall
    /\ "main" \notin tab.writers
    /\ \A k \in 1..Len(tab.todo) : tab.todo[k].thread # "main"

\* the store after a call has returned
StoreAfter(r) ==
    /\ config' = r.config
    /\ file' = r.file
    /\ entropy' = r.iv
    /\ streak' = StreakAfter(r.config)
    /\ UNCHANGED <<machine, writable, horizon, app, flow>>

\* a GUI handler enters its store call: _add_prompt, _clear_prompts, or
\* _start_generation (prompts present, credits enough) entering _save_settings
TabHandlerBegin ==
    \E call \in {[op |-> "add_prompt", arg |-> "cat", step |-> 1],
                 [op |-> "add_prompt", arg |-> "fox", step |-> 1],
                 [op |-> "clear_prompts", arg |-> "", step |-> 1],
                 [op |-> "start_generation", arg |-> "", step |-> 1]} :
        /\ Spend
        /\ MainIdle
        /\ call.op = "start_generation" =>
              /\ Truthy(GetPrompts(config))
              /\ tab.worker = "none" /\ ~tab.is_generating
        /\ tab' = [tab EXCEPT !.call = call, !.writers = @ \cup {"main"}]
        /\ UNCHANGED <<config, file, machine, writable, entropy, last, streak, horizon, app, flow>>

\* the store call returns; _save_settings goes on to its next call, and after the
\* last one _start_generation sets the flags and starts the background thread;
\* an exception of the call ends the handler
TabHandlerEnd ==
    LET r == CASE tab.call.op = "add_prompt" ->
                    AddPrompt(config, file, tab.call.arg, Key, writable, entropy)
               [] tab.call.op = "clear_prompts" -> ClearPrompts(config, file, Key, writable, entropy)
               [] OTHER -> SaveSettingsStep(config, file, tab.call.step, Key, writable, entropy)
        ended == [tab EXCEPT !.call = NoCall, !.writers = @ \ {"main"}]
    IN /\ tab.call # NoCall
       /\ StoreAfter(r)
       /\ last' = Called(tab.call.op, <<>>, Str(tab.call.arg), r, Null, FALSE)
       /\ tab' = IF tab.call.op # "start_generation" \/ r.exc # "none" THEN ended
                 ELSE IF tab.call.step < SaveSettingsCalls
                      THEN [tab EXCEPT !.call.step = @ + 1]
                      ELSE [ended EXCEPT !.is_generating = TRUE, !.stop_requested = FALSE,
                                         !.worker = "started"]
       /\ UNCHANGED calls

\* _run_generation on the background thread: prompts = self.config.get_prompts()
WorkerRead ==
    /\ tab.worker = "started"
    /\ tab' = [tab EXCEPT !.worker = "generating", !.prompts = GetPrompts(config).xs]
    /\ UNCHANGED <<config, file, machine, writable, entropy, last, streak, calls, horizon, app, flow>>

\* results = automation.generate_images(prompts, ...): records of some of the
\* prompts in order, or an exception
WorkerGenerate ==
    \E n \in 0..Len(tab.prompts) : \E failed \in BOOLEAN :
        /\ tab.worker = "generating"
        /\ failed => n = 0
        /\ tab' = [tab EXCEPT !.worker = IF failed THEN "failed" ELSE "generated",
                               !.results = [k \in 1..n |-> GenerationOf(tab.prompts[k].s)]]
        /\ UNCHANGED <<config, file, machine, writable, entropy, last, streak, calls, horizon, app, flow>>

\* self.after(0, lambda: self._generation_complete(results)), or
\* self.after(0, self._generation_failed) in the except clauses; the thread ends
WorkerPost ==
    /\ tab.worker \in {"generated", "failed"}
    /\ tab' = [After(tab, [name |-> IF tab.worker = "failed" THEN "failed" ELSE "complete",
                            results |-> tab.results])
                  EXCEPT !.worker = "none", !.results = <<>>, !.prompts = <<>>]
    /\ UNCHANGED <<config, file, machine, writable, entropy, last, streak, calls, horizon, app, flow>>

\* the main loop takes the next callback when no handler runs
MainDispatch ==
    /\ MainIdle
    /\ tab.queue # <<>>
    /\ tab' = Dispatch(tab)
    /\ UNCHANGED <<config, file, machine, writable, entropy, last, streak, calls, horizon, app, flow>>

\* _generation_complete enters self.config.add_generation(result)
AddGenerationBegin ==
    /\ tab.todo # <<>>
    /\ Head(tab.todo).thread \notin tab.writers
    /\ Head(tab.todo).thread = "main" => tab.call = NoCall
    /\ tab' = [tab EXCEPT !.writers = @ \cup {Head(tab.todo).thread}]
    /\ UNCHANGED <<config, file, machine, writable, entropy, last, streak, calls, horizon, app, flow>>

\* add_generation returns
AddGenerationEnd ==
    LET t == Head(tab.todo).thread
        r == AddGeneration(config, file, Head(tab.todo).generation, Key, writable, entropy)
    IN /\ tab.todo # <<>>
       /\ t \in tab.writers
       /\ t = "main" => tab.call = NoCall
       /\ StoreAfter(r)
       /\ last' = Called("add_generation", <<>>, Head(tab.todo).generation, r, Null, FALSE)
       /\ tab' = [tab EXCEPT !.todo = Tail(@), !.writers = @ \ {t}]
       /\ UNCHANGED calls

\* the generate tab: the main loop and the background thread
InitThreads == InitOver(NoFile, MaxTabCalls, 0)

NextThreads ==
    \/ TabHandlerBegin
    \/ TabHandlerEnd
    \/ WorkerRead
    \/ WorkerGenerate
    \/ WorkerPost
    \/ MainDispatch
    \/ AddGenerationBegin
    \/ AddGenerationEnd

SpecThreads == InitThreads /\ [][NextThreads]_vars

\* CryptoService.encrypt(data)
CallEncrypt ==
    \E data \in SecretInputs :
        LET iv == IF Truthy(data) THEN entropy + 1 ELSE entropy
            token == Encrypt(data, Key, iv)
        IN /\ Spend
           /\ entropy' = iv
           /\ last' = Called("encrypt", <<>>, data, Untouched(config, file, iv, "none"), token, FALSE)
           /\ UNCHANGED <<config, file, machine, writable, streak, horizon, app, flow, tab>>

\* CryptoService.decrypt(encrypted_data), of a given text or of what the last call returned
CallDecrypt ==
    \E data \in DecryptInputs \cup (IF IsStr(last.ret) THEN {last.ret} ELSE {}) :
        LET r == Decrypt(data, Key) IN
        /\ Spend
        /\ last' = Called("decrypt", <<>>, data, Untouched(config, file, entropy, r.exc), r.value, FALSE)
        /\ UNCHANGED <<config, file, machine, writable, entropy, streak, horizon, app, flow, tab>>

\* the crypto service alone, on either machine
InitCrypto == InitOver(NoFile, MaxCryptoCalls, 0)

NextCrypto ==
    \/ CallEncrypt
    \/ CallDecrypt
    \/ Restart

SpecCrypto == InitCrypto /\ [][NextCrypto]_vars

\* a fresh store and the three prompt calls alone
InitPrompts == InitOver(NoFile, MaxPromptCalls, 0)

NextPrompts ==
    \/ CallAddPrompt
    \/ CallRemovePrompt
    \/ CallClearPrompts

SpecPrompts == InitPrompts /\ [][NextPrompts]_vars

\* the store constructed over a file copied from another machine or over a file that
\* is no JSON, and what the user can do from there
InitRecovery == \E f \in {ForeignFile, MalformedFile} : InitOver(f, MaxRecoveryCalls, 0)

NextRecovery ==
    \/ CallSet
    \/ CallSetSecure
    \/ CallRemove
    \/ CallAddPrompt
    \/ CallClearPrompts
    \/ CallReset
    \/ Reload

SpecRecovery == InitRecovery /\ [][NextRecovery]_vars

(***************************************************************************)
(* Properties                                                              *)
(***************************************************************************)
\* what a new store on this machine would hold after loading the file as it is
Reloaded == LoadConfig(file, Key, writable, entropy)

MutatingCalls ==
    {"set", "set_secure", "remove", "add_prompt", "remove_prompt", "clear_prompts",
     "add_generation", "clear_history", "reset"}

\* C1: after set_secure(f, v), a new store that loads the file under the same
\* machine-derived key returns v from get_secure(f)
C1_SecureRoundTrip ==
    last.op = "set_secure" /\ last.exc = "none" =>
        /\ Reloaded.exc = "none"
        /\ Get(Reloaded.config, last.key, Str("")) = [exc |-> "none", value |-> last.arg]

C1_Witness ==
    /\ last.op = "set_secure"
    /\ last.key = <<"google_password">>
    /\ last.arg = Str("abc123")
    /\ file.kind = "json"
    /\ file.doc.t = "dict"
    /\ "google_password" \in DOMAIN file.doc.d
    /\ file.doc.d["google_password"].t = "ct"

\* C2: in the file as the store has just written it, each top-level secure key is
\* absent, empty or the ciphertext of the in-memory value under this machine's key,
\* never the non-empty plaintext; every other key's value is the in-memory value
C2_SecureFieldsEncryptedAtRest ==
    last.saved = "ok" /\ config.t = "dict" =>
        /\ file.kind = "json"
        /\ file.doc.t = "dict"
        /\ DOMAIN file.doc.d = DOMAIN config.d
        /\ \A k \in DOMAIN config.d :
              IF k \in SecureKeySet
              THEN /\ \/ file.doc.d[k] = Str("")
                      \/ \E iv \in 1..entropy : file.doc.d[k] = Ciphertext(Key, config.d[k], iv)
                   /\ Truthy(config.d[k]) => file.doc.d[k] # config.d[k]
              ELSE file.doc.d[k] = config.d[k]

C2_Witness ==
    /\ last.saved = "ok"
    /\ last.op = "set"
    /\ last.key = <<"settings", ".", "api_token">>
    /\ last.arg = Str("abc123")
    /\ Get(config, <<"api_token">>, Null).value = Str("abc123")
    /\ file.kind = "json"
    /\ Get(file.doc, <<"api_token">>, Null).value.t = "ct"
    /\ Get(file.doc, <<"settings", ".", "api_token">>, Null).value = Str("abc123")

\* C3: a mutating call that returns has persisted the whole document: loading the
\* file under the same key gives the in-memory document
C3_WriteThrough ==
    last.op \in MutatingCalls /\ last.pre /\ last.exc = "none" =>
        Reloaded.config = config

C3_Witness ==
    /\ last.op = "remove"
    /\ last.pre
    /\ last.exc = "none"
    /\ last.key = <<"settings", ".", "time", "out">>
    /\ Get(config, <<"google_password">>, Null).value = Str("hunter2")

\* C4: a write of the backing file that fails during a call surfaces to the caller
C4_WriteFailureSurfaces == last.saved = "failed" => last.exc # "none"

\* a secure field's text in the file that is no ciphertext encrypt produced: a
\* flipped byte, or other text in its place
Damaged(v) == IF v.t = "ct" THEN ~v.mac ELSE v.t = "str" /\ v.s # ""

\* C5: loading a file in which a secure field's ciphertext is damaged raises nothing,
\* leaves that field empty and every other field with its value of the file (the
\* other secure field decrypted)
C5_DamagedCiphertextLoads ==
    \A f \in SecureKeySet :
        (/\ last.op = "load"
         /\ file.kind = "json"
         /\ file.doc.t = "dict"
         /\ f \in DOMAIN file.doc.d
         /\ Damaged(file.doc.d[f]))
        => /\ last.exc = "none"
           /\ config.t = "dict"
           /\ DOMAIN config.d = DOMAIN file.doc.d
           /\ Get(config, <<f>>, Str("")) = [exc |-> "none", value |-> Str("")]
           /\ \A k \in DOMAIN file.doc.d \ SecureKeySet : config.d[k] = file.doc.d[k]
           /\ \A g \in (SecureKeySet \cap DOMAIN file.doc.d) \ {f} :
                 file.doc.d[g].t = "ct" /\ file.doc.d[g].mac /\ file.doc.d[g].key = Key
                 => config.d[g] = file.doc.d[g].pt

C5_Witness ==
    /\ last.op = "load"
    /\ calls < MaxCalls
    /\ file.kind = "json"
    /\ Damaged(Get(file.doc, <<"api_token">>, Null).value)
    /\ Get(config, <<"api_token">>, Null).value = Str("")
    /\ Get(config, <<"google_password">>, Null).value = Str("hunter2")
    /\ GetPrompts(config) = List(<<Str("cat"), Str("dog"), Str("owl")>>)

\* C6: get(p, d) of a path that is not present returns d and raises nothing
C6_GetMissingGivesDefault ==
    last.op = "get" /\ ~Present(config, Split(last.key)) =>
        last.exc = "none" /\ last.ret = last.arg

C6_Witness ==
    /\ last.op = "get"
    /\ last.key = <<"settings", ".", "timeout", ".", "cat">>
    /\ config.t = "dict"
    /\ "settings" \in DOMAIN config.d
    /\ last.ret = last.arg

\* C7: after set(p, v) has returned, get(p, d) returns v whatever d is, also for a
\* falsy v and for a path whose intermediate mappings did not exist
C7_SetThenGet ==
    last.op = "set" /\ last.exc = "none" =>
        \A d \in DefaultInputs \cup {Str("")} :
            Get(config, last.key, d) = [exc |-> "none", value |-> last.arg]

C7_Witness ==
    /\ last.op = "set"
    /\ last.exc = "none"
    /\ last.key = <<"cache", ".", "thumbs", ".", "size">>
    /\ last.arg = Null
    /\ Present(config, <<"cache", "thumbs", "size">>)

\* whether walking keys down from node meets, before the last key, a value that is
\* no mapping
RECURSIVE NonMappingOnPath(_, _)
NonMappingOnPath(node, keys) ==
    /\ Len(keys) > 1
    /\ node.t = "dict"
    /\ Head(keys) \in DOMAIN node.d
    /\ \/ node.d[Head(keys)].t # "dict"
       \/ NonMappingOnPath(node.d[Head(keys)], Tail(keys))

\* C8: set(p, v) and remove(p) raise nothing when an intermediate segment of p holds
\* a value that is no mapping
C8_TraversalErrorsAbsorbed ==
    [][(last'.op \in {"set", "remove"} /\ NonMappingOnPath(config, Split(last'.key)))
           => last'.exc = "none"]_vars

\* the stored history's length
HistoryLen(cfg) == IF GetHistory(cfg).t = "list" THEN Len(GetHistory(cfg).xs) ELSE 0

\* C9: the history never has more than 50 entries
C9_HistoryNeverExceedsCap == HistoryLen(config) <= HISTORY_CAP

\* C9, amended: a call other than a set on the recent_generations key leaves at
\* most 50 entries when there were at most 50 before it
C9_OnlySetExceedsCap ==
    [][(HistoryLen(config) <= HISTORY_CAP
            /\ ~(last'.op = "set" /\ Head(Split(last'.key)) = "recent_generations"))
           => HistoryLen(config') <= HISTORY_CAP]_vars

C9_Witness ==
    /\ last.op = "add_generation"
    /\ streak.ok
    /\ Len(streak.added) > HISTORY_CAP
    /\ HistoryLen(config) = HISTORY_CAP

\* C10: after n consecutive add_generation calls on an empty history the history
\* holds the min(n, 50) records added last, the newest first
C10_NewestFiftyKept ==
    streak.ok /\ streak.added # <<>> =>
        LET n == Len(streak.added)
            m == IF n < HISTORY_CAP THEN n ELSE HISTORY_CAP
            recent == GetHistory(config)
        IN /\ recent.t = "list"
           /\ Len(recent.xs) = m
           /\ \A i \in 1..m : recent.xs[i] = streak.added[n + 1 - i]

C10_Witness ==
    /\ streak.ok
    /\ Len(streak.added) = HISTORY_CAP + 2
    /\ last.op = "add_generation"
    /\ GetHistory(config).xs[1] = last.arg
    /\ GetHistory(config).xs[HISTORY_CAP] = streak.added[3]

\* C11: add_prompt(text) with an empty text, or a text the prompts already hold, leaves
\* document and file as they are and writes nothing; add_prompt(t) repeated right after
\* the add_prompt(t) that made the sequence <<t>> leaves a sequence of length 1
C11_AddPromptNoOp ==
    [][last'.op = "add_prompt" =>
          LET prompts == GetPrompts(config)
              text == last'.arg
          IN /\ (text = Str("") \/ (prompts.t = "list" /\ ListContains(prompts.xs, text)))
                    => /\ config' = config
                       /\ file' = file
                       /\ last'.saved = "none"
                       /\ last'.exc = "none"
             /\ (last.op = "add_prompt" /\ last.arg = text /\ prompts = List(<<text>>))
                    => GetPrompts(config') = List(<<text>>)]_vars

C11_Witness ==
    /\ last.op = "add_prompt"
    /\ last.arg = Str("fox")
    /\ ~last.pre
    /\ last.saved = "none"
    /\ calls = MaxCalls - 2
    /\ GetPrompts(config) = List(<<Str("fox")>>)

\* C12: remove_prompt(i) on n prompts takes out the prompt at position i (from 0) and
\* keeps the others in order when 0 <= i < n; for any other i it leaves document and
\* file as they are, raises nothing and writes nothing
C12_RemovePromptByIndex ==
    [][last'.op = "remove_prompt" /\ GetPrompts(config).t = "list" =>
          LET old == GetPrompts(config).xs
              new == GetPrompts(config')
              i == last'.arg.i
              n == Len(old)
          IN IF 0 <= i /\ i < n
             THEN /\ last'.exc = "none"
                  /\ new.t = "list"
                  /\ Len(new.xs) = n - 1
                  /\ \A j \in 1..(n - 1) : new.xs[j] = IF j <= i THEN old[j] ELSE old[j + 1]
             ELSE /\ last'.exc = "none"
                  /\ last'.saved = "none"
                  /\ config' = config
                  /\ file' = file]_vars

C12_Witness ==
    /\ last.op = "remove_prompt"
    /\ last.arg = Num(-1)
    /\ last.exc = "none"
    /\ last.saved = "none"
    /\ GetPrompts(config) = List(<<Str("cat"), Str("dog"), Str("owl")>>)

\* C13: remove(p) with the leaf of p present deletes that key, keeps every other
\* top-level key's value and persists the document; with the leaf or a segment before
\* it absent it changes neither the document nor the file
C13_RemoveDeletesOrLeaves ==
    [][last'.op = "remove" =>
          LET keys == Split(last'.key) IN
          IF Present(config, keys)
          THEN /\ last'.exc = "none"
               /\ ~Present(config', keys)
               /\ Len(keys) > 1 => Present(config', SubSeq(keys, 1, Len(keys) - 1))
               /\ \A k \in DOMAIN config.d \ {Head(keys)} :
                      k \in DOMAIN config'.d /\ config'.d[k] = config.d[k]
               /\ last'.saved = "ok"
               /\ Reloaded'.config = config'
          ELSE /\ config' = config
               /\ file' = file
               /\ last'.saved = "none"]_vars

C13_Witness ==
    /\ last.op = "remove"
    /\ last.key = <<"cache", ".", "thumbs", ".", "size">>
    /\ ~last.pre
    /\ last.saved = "none"
    /\ last.exc = "none"
    /\ ~Present(config, <<"cache">>)
    /\ file = SeedSave.file

\* whether doc is the default document, value by value
HoldsDefaults(doc) ==
    /\ doc.t = "dict"
    /\ DOMAIN doc.d = {"api_token", "google_email", "google_password", "prompts",
                       "settings", "recent_generations"}
    /\ doc.d["api_token"] = Str("")
    /\ doc.d["google_email"] = Str("")
    /\ doc.d["google_password"] = Str("")
    /\ doc.d["prompts"] = List(<<>>)
    /\ doc.d["recent_generations"] = List(<<>>)
    /\ doc.d["settings"].t = "dict"
    /\ DOMAIN doc.d["settings"].d = {"timeout", "delay", "headless", "theme", "auto_sync_credits"}
    /\ doc.d["settings"].d["timeout"] = Num(120)
    /\ doc.d["settings"].d["delay"] = Num(5)
    /\ doc.d["settings"].d["headless"] = Bool(FALSE)
    /\ doc.d["settings"].d["theme"] = Str("dark")
    /\ doc.d["settings"].d["auto_sync_credits"] = Bool(TRUE)

\* C14: after reset() the in-memory document is the default document, the file has
\* been written, and a reload gives the default document too
C14_ResetRestoresDefaults ==
    last.op = "reset" =>
        /\ last.exc = "none"
        /\ HoldsDefaults(config)
        /\ last.saved = "ok"
        /\ Reloaded.exc = "none"
        /\ HoldsDefaults(Reloaded.config)

\* reset as the second call, after a first call that wrote both secure fields of the
\* seeded document
C14_Witness ==
    /\ last.op = "reset"
    /\ calls = MaxCalls - 2
    /\ entropy = SeedSave.iv + 2
    /\ file.kind = "json"
    /\ HoldsDefaults(file.doc)

\* C15: a store constructed when no file exists holds the defaults (get_prompts()
\* is empty, get("settings.timeout") is 120) and has written the file, which holds
\* the default document
C15_FreshStoreHoldsDefaults ==
    last.op = "load" /\ last.pre =>
        /\ last.exc = "none"
        /\ GetPrompts(config) = List(<<>>)
        /\ \A d \in DefaultInputs :
              Get(config, <<"settings", ".", "timeout">>, d) = [exc |-> "none", value |-> Num(120)]
        /\ HoldsDefaults(config)
        /\ file.kind = "json"
        /\ HoldsDefaults(file.doc)

\* the store constructed on the other machine after the seeded file was deleted
C15_Witness ==
    /\ last.op = "load"
    /\ last.pre
    /\ machine # HomeMachine
    /\ file.kind = "json"
    /\ Get(config, <<"settings", ".", "timeout">>, Null).value = Num(120)

\* C16: loading a file that exists and is no well-formed JSON raises nothing and
\* leaves the empty mapping in memory; the file is left as it was
C16_MalformedFileLoadsEmpty ==
    last.op = "load" /\ file.kind = "malformed" =>
        /\ last.exc = "none"
        /\ config = Dict(EmptyMap)
        /\ last.saved = "none"
        /\ GetPrompts(config) = List(<<>>)
        /\ Get(config, <<"settings", ".", "timeout">>, Num(7)).value = Num(7)

C16_Witness ==
    /\ last.op = "load"
    /\ file = MalformedFile
    /\ config = Dict(EmptyMap)
    /\ ~last.pre

\* C17: loading a file whose secure fields were encrypted under another machine's key
\* succeeds, gives "" for each such secure field and the persisted value for every
\* field that is not secure
C17_ForeignKeyLosesSecrets ==
    (/\ last.op = "load"
     /\ file.kind = "json"
     /\ file.doc.t = "dict")
    => /\ last.exc = "none"
       /\ config.t = "dict"
       /\ DOMAIN config.d = DOMAIN file.doc.d
       /\ \A k \in DOMAIN file.doc.d :
             IF k \in SecureKeySet
             THEN (file.doc.d[k].t = "ct" /\ file.doc.d[k].key # Key) => config.d[k] = Str("")
             ELSE config.d[k] = file.doc.d[k]

C17_Witness ==
    /\ last.op = "load"
    /\ machine = "m2"
    /\ file = SeedSave.file
    /\ \A k \in SecureKeySet : file.doc.d[k].t = "ct" /\ file.doc.d[k].key = DeriveKey("m1")
    /\ \A k \in SecureKeySet : Get(config, <<k>>, Null).value = Str("")
    /\ Get(config, <<"google_email">>, Null).value = Str("user@example.com")
    /\ GetPrompts(config) = List(<<Str("cat"), Str("dog"), Str("owl")>>)
    /\ Get(config, <<"settings", ".", "timeout">>, Null).value = Num(120)

\* C18: after set(p, v) with a non-empty str v and a secure-field key as the leaf of p
\* (p nested or not) the in-memory value at p is v and the value at p in the file is
\* a ciphertext of v, not v
C18_SecureLeafEncryptedAtAnyDepth ==
    (/\ last.op \in {"set", "set_secure"}
     /\ last.exc = "none"
     /\ Split(last.key)[Len(Split(last.key))] \in SecureKeySet
     /\ Truthy(last.arg))
    => /\ Get(config, last.key, Null).value = last.arg
       /\ file.kind = "json"
       /\ LET stored == Get(file.doc, last.key, Null).value IN
          /\ stored # last.arg
          /\ stored.t = "ct"
          /\ stored.pt = last.arg
          /\ stored.key = Key

\* C19: get_recent_generations(limit) returns the first limit entries of the history
\* in stored order, all of them when there are fewer, for every int limit (none for a
\* limit below 1), and leaves the history as it is
C19_FirstLimitEntries ==
    last.op = "get_recent_generations" =>
        LET xs == GetHistory(config).xs
            limit == last.arg.i
        IN /\ last.exc = "none"
           /\ last.ret = List(SubSeq(xs, 1, IF limit < Len(xs) THEN limit ELSE Len(xs)))

\* C19, amended: for limit >= 0 the call returns the first min(limit, n) of the n
\* entries; for limit < 0 it returns the first max(0, n + limit), that is all but the
\* last -limit; the call changes neither document nor file
C19_PrefixByPythonSlice ==
    [][last'.op = "get_recent_generations" =>
          LET xs == GetHistory(config).xs
              n == Len(xs)
              limit == last'.arg.i
              m == IF limit >= 0 THEN (IF limit < n THEN limit ELSE n)
                   ELSE (IF n + limit > 0 THEN n + limit ELSE 0)
          IN /\ last'.exc = "none"
             /\ last'.ret.t = "list"
             /\ Len(last'.ret.xs) = m
             /\ \A i \in 1..m : last'.ret.xs[i] = xs[i]
             /\ config' = config
             /\ file' = file]_vars

C19_Witness ==
    /\ last.op = "get_recent_generations"
    /\ last.arg = Num(-1)
    /\ HistoryLen(config) = 2
    /\ last.ret = List(<<GetHistory(config).xs[1]>>)

\* C20: get_secure(k) returns what get(k, "") returns and changes nothing;
\* set_secure(k, v) leaves the document and the file that set(k, v) leaves
C20_SecureCallsAreGetAndSet ==
    [][/\ last'.op = "get_secure" =>
             /\ [exc |-> last'.exc, value |-> last'.ret] = Get(config, last'.key, Str(""))
             /\ config' = config
             /\ file' = file
       /\ last'.op = "set_secure" =>
             LET r == Set(config, file, last'.key, last'.arg, Key, writable, entropy) IN
             /\ config' = r.config
             /\ file' = r.file
             /\ last'.exc = r.exc]_vars

C20_Witness ==
    /\ last.op = "get_secure"
    /\ last.key = <<"google_password">>
    /\ last.ret = Str("hunter2")
    /\ Get(file.doc, <<"google_password">>, Null).value.t = "ct"

\* C21: a save leaves the in-memory document as the call made it before saving: the
\* secure fields keep their plaintext (no ciphertext is ever in memory) and every key
\* holds what the assignment, deletion or replacement of the call gave it
C21_SaveKeepsMemory ==
    [][last'.saved = "ok" =>
          /\ config'.t = "dict"
          /\ \A k \in SecureKeySet \cap DOMAIN config'.d : config'.d[k].t # "ct"
          /\ last'.op \in {"set", "set_secure"} =>
                 config' = SetWalk(config, Split(last'.key), last'.arg).node
          /\ last'.op = "remove" => config' = RemoveWalk(config, Split(last'.key)).node
          /\ last'.op = "clear_prompts" => config' = SetWalk(config, PromptsKey, List(<<>>)).node
          /\ last'.op = "clear_history" => config' = SetWalk(config, HistoryKey, List(<<>>)).node
          /\ last'.op \in {"reset", "load"} => config' = GetDefaults]_vars

C21_Witness ==
    /\ last.op = "clear_prompts"
    /\ last.saved = "ok"
    /\ Get(config, <<"api_token">>, Null).value = Str("abc123")
    /\ Get(config, <<"google_password">>, Null).value = Str("hunter2")
    /\ file.kind = "json"
    /\ Get(file.doc, <<"api_token">>, Null).value.t = "ct"
    /\ Get(file.doc, <<"google_password">>, Null).value.t = "ct"

\* whether v, a secure field's text in the file, is something decrypt fails on
\* under this machine's key
Undecryptable(v) ==
    IF v.t = "ct" THEN ~v.mac \/ v.key # Key ELSE v.t = "str" /\ v.s # ""

C23_LoadLeavesFile ==
    [][/\ (last'.op = "load" /\ file.kind # "absent") =>
             /\ file' = file
             /\ last'.saved = "none"
       /\ (/\ last.op = "load"
           /\ file.kind = "malformed"
           /\ last'.op \in {"set", "set_secure"}
           /\ last'.exc = "none")
          => /\ config' = SetWalk(Dict(EmptyMap), Split(last'.key), last'.arg).node
             /\ file'.kind = "json"
             /\ Reloaded'.config = config']_vars

C23_Witness ==
    /\ last.op = "set"
    /\ last.key = <<"cache", ".", "thumbs", ".", "size">>
    /\ config.t = "dict"
    /\ DOMAIN config.d = {"cache"}
    /\ file = JsonFile(config)

\* C24: from a fresh store, after any add_prompt, remove_prompt or clear_prompts the
\* prompts hold no empty string and no string twice, and stand in the order they were
\* added: a call keeps the order of the prompts it keeps and puts a new one last
C24_PromptsOrderedSet ==
    [][LET old == GetPrompts(config).xs
           new == GetPrompts(config').xs
       IN /\ \A i \in 1..Len(new) : new[i] # Str("")
          /\ \A i, j \in 1..Len(new) : i # j => new[i] # new[j]
          /\ \A i, j \in 1..Len(new) : \A a, b \in 1..Len(old) :
                 (i < j /\ old[a] = new[i] /\ old[b] = new[j]) => a < b
          /\ \A i \in 1..Len(new) : ~ListContains(old, new[i]) => i = Len(new)]_vars

C24_Witness ==
    /\ last.op = "add_prompt"
    /\ last.pre
    /\ last.arg = Str("cat")
    /\ calls = 0
    /\ GetPrompts(config) = List(<<Str("fox"), Str("elk"), Str("cat")>>)
    /\ file.kind = "json"
    /\ GetPrompts(file.doc) = GetPrompts(config)

\* whether v is a token encrypt produced under this machine's key, unaltered
TokenOfThisKey(v) == v.t = "ct" /\ v.key = Key /\ v.mac

\* C25: decrypt raises nothing and returns a str for every input; it returns "" for
\* every input that is no unaltered token of encrypt under the current key, and the
\* plaintext for one that is
C25_DecryptTotal ==
    last.op = "decrypt" =>
        /\ last.exc = "none"
        /\ IsStr(last.ret)
        /\ ~TokenOfThisKey(last.arg) => last.ret = Str("")
        /\ TokenOfThisKey(last.arg) => last.ret = last.arg.pt

\* an unaltered token of the first machine handed to decrypt on the second
C25_Witness ==
    /\ last.op = "decrypt"
    /\ machine = "m2"
    /\ last.arg.t = "ct"
    /\ last.arg.mac
    /\ last.arg.key = DeriveKey("m1")
    /\ last.ret = Str("")

\* C28: a set(p, v) that raises leaves the in-memory document and the file as they
\* were before the call: no mapping has been created and nothing has been written
C28_RaisingSetLeavesState ==
    [][(last'.op \in {"set", "set_secure"} /\ last'.exc # "none") =>
          /\ config' = config
          /\ file' = file
          /\ entropy' = entropy
          /\ last'.saved = "none"]_vars

C28_Witness ==
    /\ last.op = "set"
    /\ last.exc = "TypeError"
    /\ last.key = <<"settings", ".", "headless", ".", "cat">>
    /\ Get(config, <<"settings", ".", "headless">>, Null).value = Bool(FALSE)
    /\ file = SeedSave.file

\* C27: the records generate_images has collected are those of prompts in prompt
\* order, at most one for a position of the list; once stop_check has returned true
\* no further prompt is processed and no record is added, and the list returned is
\* the list collected
C27_RecordsInPromptOrder ==
    [][/\ Len(flow'.kept) = Len(flow'.results)
       /\ \A k \in 1..Len(flow'.kept) :
             /\ flow'.kept[k] < Len(flow'.prompts)
             /\ flow'.results[k] = GenerationOf(flow'.prompts[flow'.kept[k] + 1])
             /\ k > 1 => flow'.kept[k - 1] < flow'.kept[k]
       /\ (flow.stop_seen /\ flow'.pc # "create") =>
             /\ flow'.seen = flow.seen
             /\ flow'.results = flow.results
             /\ flow'.pc \in {"except", "finally", "returned", "raised"}
       /\ flow'.pc = "returned" => flow'.results = flow.results]_vars

\* stopped after the second of three prompts, the first of which gave no record
C27_Witness ==
    /\ flow.pc = "returned"
    /\ flow.exit = "stop"
    /\ flow.prompts = <<"cat", "cat", "elk">>
    /\ flow.seen = <<0, 1>>
    /\ flow.results = <<GenerationOf("cat")>>
    /\ flow.kept = <<1>>

\* C29: generate_images never raises to its caller, and when it has returned, by
\* whatever path, a browser that was assigned has been quit
C29_BrowserQuitOnEveryExit ==
    /\ flow.pc # "raised"
    /\ flow.pc = "returned" => flow.browser \in {"None", "quit"}

\* the backing file holds the key at the top level
InFile(k) == file.kind = "json" /\ file.doc.t = "dict" /\ k \in DOMAIN file.doc.d

\* C30: _check_auth shows the main screen exactly when the store holds a non-empty
\* api_token and validate_token succeeded for it, otherwise the login screen; after
\* logout api_token is in neither the in-memory document nor the backing file, and
\* a start after a logout with no login in between shows the login screen
C30_AuthFlow ==
    /\ app.via = "check_auth" =>
          /\ app.token = GetSecure(config, <<"api_token">>).value
          /\ app.current_screen = "main" <=> (Truthy(app.token) /\ app.valid)
          /\ app.current_screen \in {"main", "login"}
          /\ app.logged_out => app.current_screen = "login"
    /\ app.via = "logout" =>
          /\ app.current_screen = "login"
          /\ ~Present(config, <<"api_token">>)
          /\ ~InFile("api_token")
    /\ app.logged_out => ~Present(config, <<"api_token">>) /\ ~InFile("api_token")

\* logged in with a remembered token, logged out, started again: the login screen
C30_Witness ==
    /\ app.via = "check_auth"
    /\ app.logged_out
    /\ app.current_screen = "login"
    /\ last.op = "load"
    /\ calls <= MaxAuthCalls - 3

\* C26: at most one thread is inside a mutating store call and it is the main
\* thread: the background thread makes none, and every add_generation of its
\* results is made by _generation_complete on the main thread
C26_MutationsOnMainThread ==
    /\ tab.writers \subseteq {"main"}
    /\ \A k \in 1..Len(tab.todo) : tab.todo[k].thread = "main"

\* the second of two add_generation calls of _generation_complete is under way
C26_Witness ==
    /\ tab.writers = {"main"}
    /\ tab.call = NoCall
    /\ Len(tab.todo) = 1
    /\ last.op = "add_generation"
    /\ Len(GetHistory(config).xs) = 1
    /\ tab.worker = "none"

====
